---- MODULE Spec2Model ----
(***************************************************************************)
(* Model of src/index.tsx: the two protected routes of the Railway         *)
(* service-status proxy and the paginating traversal getRailwayServiceInfo *)
(* they share.                                                             *)
(*                                                                         *)
(* One process per inbound HTTP request.  JavaScript runs a handler to its *)
(* next `await`, so a request takes one step from its arrival to its first *)
(* fetch (or to a 4xx answer), one step when the upstream answers, and one *)
(* step from the answer to the next fetch (or to the HTTP response).       *)
(*                                                                         *)
(* Strings are sequences of atoms; an atom stands for a piece of text that *)
(* the code looks for or writes as a whole ("Bearer ", "GraphQL request    *)
(* failed").  replace() and includes() work on these sequences.            *)
(***************************************************************************)
EXTENDS Naturals, Sequences, FiniteSets, TLC

VARIABLES
    pc,           \* per request: "idle", "fetch", "body", "done"
    req,          \* per request: the inbound request (endpoint, header, param)
    apiToken,     \* per request: the token handed to getRailwayServiceInfo
    allServices,  \* per request: the traversal's accumulator
    hasNextPage,  \* per request: the traversal's loop flag
    afterCursor,  \* per request: the traversal's cursor
    call,         \* per request: the upstream call in flight
    resp,         \* per request: the upstream answer being read
    response,     \* per request: the HTTP response sent
    sent,         \* history: the `after` of every upstream call issued
    log           \* history: every upstream answer received

hist == <<sent, log>>
vars == <<pc, req, apiToken, allServices, hasNextPage, afterCursor, call, resp, response, sent, log>>

\* ------------------------------------------------------------------ bounds

\* Upstream calls one request may issue in the observed specification.
MaxCalls == 3
\* Records one traversal may accumulate in the unobserved specification.
MaxRecords == 2

Reqs == {"r1", "r2"}

\* ------------------------------------------------------------------- text

BearerPrefix == "Bearer "
GQLRequestFailed == "GraphQL request failed"
GQLErrors == "GraphQL errors: "

\* String.prototype.replace(pattern, ""): drops the first occurrence only.
RECURSIVE ReplaceFirst(_, _)
ReplaceFirst(s, atom) ==
    IF s = <<>> THEN <<>>
    ELSE IF Head(s) = atom THEN Tail(s)
    ELSE <<Head(s)>> \o ReplaceFirst(Tail(s), atom)

\* String.prototype.includes(needle), needle a sequence of atoms.
Includes(s, needle) ==
    \E i \in 0..Len(s) :
        /\ i + Len(needle) <= Len(s)
        /\ SubSeq(s, i + 1, i + Len(needle)) = needle

\* ---------------------------------------------------------- inbound request

NoHeader == [present |-> FALSE, text |-> <<>>]
Header(t) == [present |-> TRUE, text |-> t]

Headers ==
    { NoHeader, Header(<<>>), Header(<<BearerPrefix>>),
      Header(<<BearerPrefix, "tok">>) }

Endpoints == {"list", "lookup"}
StaticUrls == {"", "u1"}

\* c.req.header("Authorization")?.replace("Bearer ", "")
ExtractToken(header) ==
    IF header.present
    THEN [present |-> TRUE, text |-> ReplaceFirst(header.text, BearerPrefix)]
    ELSE [present |-> FALSE, text |-> <<>>]

\* Variant: only a missing header counts as no token.
TokenMissingUndefinedOnly(token) == ~token.present

\* !apiToken: undefined and "" are falsy
TokenMissing(token) == ~token.present \/ token.text = <<>>

\* !staticUrl
StaticUrlMissing(staticUrl) == staticUrl = ""

\* ------------------------------------------------------------ upstream data

Deployment(id, status, url) ==
    [present |-> TRUE, id |-> id, status |-> status, staticUrl |-> url,
     deploymentStopped |-> FALSE]
NoDeployment ==
    [present |-> FALSE, id |-> "", status |-> "", staticUrl |-> "",
     deploymentStopped |-> FALSE]
Instance(d) == [latestDeployment |-> d]
Service(id, name, insts) ==
    [id |-> id, name |-> name,
     serviceInstances |-> [present |-> TRUE, edges |-> insts]]
ServiceNoInstances(id, name) ==
    [id |-> id, name |-> name,
     serviceInstances |-> [present |-> FALSE, edges |-> <<>>]]
Project(id, name, svcs) ==
    [id |-> id, name |-> name, services |-> [present |-> TRUE, edges |-> svcs]]
ProjectNoServices(id, name) ==
    [id |-> id, name |-> name, services |-> [present |-> FALSE, edges |-> <<>>]]

NoErrors == [present |-> FALSE, list |-> <<>>]
Errors(list) == [present |-> TRUE, list |-> list]
NoData == [present |-> FALSE, edges |-> <<>>, hasNextPage |-> "absent", endCursor |-> "null"]
Data(edges, hasNext, endCursor) ==
    [present |-> TRUE, edges |-> edges, hasNextPage |-> hasNext, endCursor |-> endCursor]

Answer(status, text, errors, data) ==
    [status |-> status, text |-> text, errors |-> errors, data |-> data]
NoAnswer == Answer(0, <<>>, NoErrors, NoData)

EdgesA ==
    << Project("p1", "alpha",
         << Service("s1", "web", <<Instance(Deployment("d1", "FAILED", "u1"))>>) >>) >>
EdgesB == << ProjectNoServices("p2", "beta") >>
EdgesC ==
    << Project("p1", "alpha",
         << Service("s1", "web",
              <<Instance(Deployment("d2", "SUCCESS", "u1")),
                Instance(Deployment("d5", "REMOVED", "u3"))>>),
            Service("s2", "db",
              <<Instance(NoDeployment), Instance(Deployment("d3", "SUCCESS", "u2"))>>) >>),
       Project("p2", "beta", <<>>),
       Project("p3", "gamma",
         << Service("s3", "cron", <<>>),
            ServiceNoInstances("s4", "job"),
            Service("s5", "api", <<Instance(Deployment("d4", "CRASHED", "u2"))>>) >>) >>

\* Pages after which the upstream announces more.
ContinuingAnswers ==
    { Answer(200, <<>>, NoErrors, Data(EdgesA, "true", "c1")),
      Answer(200, <<>>, NoErrors, Data(EdgesB, "true", "null")) }

LastAnswers ==
    { Answer(200, <<>>, NoErrors, Data(EdgesC, "false", "c2")),
      Answer(200, <<>>, NoErrors, Data(EdgesA, "absent", "null")),
      Answer(200, <<>>, NoErrors, Data(EdgesB, "false", "c2")),
      Answer(200, <<>>, NoErrors, Data(<<>>, "true", "c1")),
      Answer(200, <<>>, NoErrors, NoData) }

FailedAnswers ==
    { Answer(500, <<"oops">>, NoErrors, NoData),
      Answer(404, <<>>, NoErrors, NoData) }

ErrorAnswers ==
    { Answer(200, <<>>, Errors(<< <<"Not Authorized">> >>), NoData),
      Answer(200, <<>>, Errors(<< <<GQLRequestFailed>> >>), NoData),
      Answer(200, <<>>, Errors(<<>>), Data(EdgesA, "false", "null")) }

Answers == ContinuingAnswers \cup LastAnswers \cup FailedAnswers \cup ErrorAnswers

\* ------------------------------------------------- getRailwayServiceInfo

\* Variant: the message is worded without the phrase the handlers look for.
TransportMessageReworded(a) ==
    <<"Request failed", ": ", ToString(a.status), " ", ", ">> \o a.text

\* `GraphQL request failed: ${status} ${statusText}, ${errorText}`
TransportMessage(a) ==
    <<GQLRequestFailed, ": ", ToString(a.status), " ", ", ">> \o a.text

\* JSON.stringify(data.errors)
RECURSIVE StringifyEach(_)
StringifyEach(list) ==
    IF list = <<>> THEN <<>>
    ELSE <<"{\"message\":\"">> \o Head(list) \o <<"\"}">> \o StringifyEach(Tail(list))
Stringify(list) == <<"[">> \o StringifyEach(list) \o <<"]">>

\* `GraphQL errors: ${JSON.stringify(data.errors)}`
ErrorsMessage(a) == <<GQLErrors>> \o Stringify(a.errors.list)

\* response.ok
ResponseOk(a) == a.status \in 200..299

\* if (data.errors): an array, even an empty one, is truthy
HasErrors(a) == a.errors.present

\* Variant: only a missing page stops the traversal, an empty one does not.
NoProjectsMissingOnly(a) == ~a.data.present

\* !projects || projects.length == 0
NoProjects(a) == ~a.data.present \/ Len(a.data.edges) = 0

\* Variant: the last instance is read instead of the first.
LatestDeploymentOfLast(service) ==
    service.serviceInstances.edges[Len(service.serviceInstances.edges)].latestDeployment

\* service.serviceInstances.edges[0].node.latestDeployment
LatestDeploymentOf(service) == service.serviceInstances.edges[1].latestDeployment

\* the object pushed at lines 165-174
MakeRecord(project, service, deployment) ==
    [projectId |-> project.id, projectName |-> project.name,
     serviceId |-> service.id, serviceName |-> service.name,
     deploymentId |-> deployment.id, status |-> deployment.status,
     staticUrl |-> deployment.staticUrl,
     deploymentStopped |-> deployment.deploymentStopped]

\* allServices.push(record)
Push(acc, record) == Append(acc, record)

\* Variant: one record for every instance that has a latest deployment.
RECURSIVE EmitInstances(_, _, _, _)
EmitInstances(project, service, insts, acc) ==
    IF insts = <<>> THEN acc
    ELSE EmitInstances(project, service, Tail(insts),
             IF Head(insts).latestDeployment.present
             THEN Push(acc, MakeRecord(project, service, Head(insts).latestDeployment))
             ELSE acc)
EmitEveryInstance(project, service, acc) ==
    IF ~service.serviceInstances.present THEN acc
    ELSE EmitInstances(project, service, service.serviceInstances.edges, acc)

\* the body of the loop over services, for one service (lines 153-175)
EmitService(project, service, acc) ==
    IF \/ ~service.serviceInstances.present
       \/ Len(service.serviceInstances.edges) = 0
    THEN acc
    ELSE LET deployment == LatestDeploymentOf(service) IN
         IF deployment.present
         THEN Push(acc, MakeRecord(project, service, deployment))
         ELSE acc

\* for (const serviceEdge of project.services.edges) { ... }
RECURSIVE ServiceLoop(_, _, _)
ServiceLoop(project, edges, acc) ==
    IF edges = <<>> THEN acc
    ELSE ServiceLoop(project, Tail(edges), EmitService(project, Head(edges), acc))

\* for (const projectEdge of projects) { ... }
RECURSIVE ProjectLoop(_, _)
ProjectLoop(edges, acc) ==
    IF edges = <<>> THEN acc
    ELSE LET project == Head(edges) IN
         IF ~project.services.present
         THEN ProjectLoop(Tail(edges), acc)
         ELSE ProjectLoop(Tail(edges), ServiceLoop(project, project.services.edges, acc))

\* data.data?.projects.pageInfo.hasNextPage ?? false
NextHasNextPage(a) == a.data.hasNextPage = "true"

\* Variant: the cursor is never advanced.
NextAfterCursorStuck(a) == "null"

\* data.data?.projects.pageInfo.endCursor ?? null
NextAfterCursor(a) == a.data.endCursor

\* Variant: the loop does not test its flag.
WhileTrue(hn) == TRUE

\* while (hasNextPage)
WhileCond(hn) == hn

\* One iteration's body from the answer on (lines 129-184): what it does to the
\* traversal's locals, and how it leaves the iteration.
Thrown(message, acc) ==
    [kind |-> "throw", message |-> message, all |-> acc,
     hasNextPage |-> TRUE, afterCursor |-> "null"]
Broken(acc) ==
    [kind |-> "break", message |-> <<>>, all |-> acc,
     hasNextPage |-> FALSE, afterCursor |-> "null"]
Advanced(acc, hn, ac) ==
    [kind |-> "next", message |-> <<>>, all |-> acc,
     hasNextPage |-> hn, afterCursor |-> ac]

PageStep(acc, a) ==
    IF ~ResponseOk(a) THEN Thrown(TransportMessage(a), acc)
    ELSE IF HasErrors(a) THEN Thrown(ErrorsMessage(a), acc)
    ELSE IF NoProjects(a) THEN Broken(acc)
    ELSE Advanced(ProjectLoop(a.data.edges, acc), NextHasNextPage(a), NextAfterCursor(a))

\* ----------------------------------------------------------- HTTP responses

NoResponse ==
    [sent |-> FALSE, code |-> 0, kind |-> "none", error |-> "",
     records |-> <<>>, serviceName |-> "", status |-> ""]
ErrorResponse(code, text) ==
    [sent |-> TRUE, code |-> code, kind |-> "error", error |-> text,
     records |-> <<>>, serviceName |-> "", status |-> ""]
ListResponse(services) ==
    [sent |-> TRUE, code |-> 200, kind |-> "list", error |-> "",
     records |-> services, serviceName |-> "", status |-> ""]
ServiceResponse(code, service) ==
    [sent |-> TRUE, code |-> code, kind |-> "service", error |-> "",
     records |-> <<>>, serviceName |-> service.serviceName, status |-> service.status]

Unauthorized == ErrorResponse(401, "Unauthorized: API token is required")
BadRequest == ErrorResponse(400, "Bad Request: staticUrl parameter is required")
NotFound == ErrorResponse(404, "Not Found: Service with provided staticUrl not found")
BadGateway == ErrorResponse(502, "Failed to fetch from Railway API")
InternalError == ErrorResponse(500, "Internal Server Error")

\* error.message.includes("GraphQL request failed")
IsRequestFailure(message) == Includes(message, <<GQLRequestFailed>>)

\* the catch blocks of both handlers
Caught(message) == IF IsRequestFailure(message) THEN BadGateway ELSE InternalError

\* services.find((s) => s.staticUrl === staticUrl): index of the first match, 0 if none
FindIndex(services, staticUrl) ==
    IF \E i \in 1..Len(services) : services[i].staticUrl = staticUrl
    THEN CHOOSE i \in 1..Len(services) :
            /\ services[i].staticUrl = staticUrl
            /\ \A j \in 1..(i - 1) : services[j].staticUrl # staticUrl
    ELSE 0

\* Variant: the 503 of line 243 is passed to c.json.
LookupCode503(service) == IF service.status # "SUCCESS" THEN 503 ELSE 200

\* c.json(body) answers 200; the 503 of line 243 is commented out
LookupCode(service) == IF service.status # "SUCCESS" THEN 200 ELSE 200

\* lines 228-250
LookupResponse(services, staticUrl) ==
    LET i == FindIndex(services, staticUrl) IN
    IF i = 0 THEN NotFound
    ELSE ServiceResponse(LookupCode(services[i]), services[i])

\* what the handler answers when the traversal returns `services`
Returned(request, services) ==
    IF request.endpoint = "list" THEN ListResponse(services)
    ELSE LookupResponse(services, request.staticUrl)

\* ------------------------------------------------------------------ state

NoCall == [active |-> FALSE, after |-> "null", authorization |-> <<>>]
NoRequest == [endpoint |-> "none", header |-> NoHeader, staticUrl |-> ""]

Init ==
    /\ pc = [r \in Reqs |-> "idle"]
    /\ req = [r \in Reqs |-> NoRequest]
    /\ apiToken = [r \in Reqs |-> <<>>]
    /\ allServices = [r \in Reqs |-> <<>>]
    /\ hasNextPage = [r \in Reqs |-> FALSE]
    /\ afterCursor = [r \in Reqs |-> "null"]
    /\ call = [r \in Reqs |-> NoCall]
    /\ resp = [r \in Reqs |-> NoAnswer]
    /\ response = [r \in Reqs |-> NoResponse]
    /\ sent = [r \in Reqs |-> <<>>]
    /\ log = [r \in Reqs |-> <<>>]

\* The handler answers and the request is over.
Finish(r, answer) ==
    /\ pc' = [pc EXCEPT ![r] = "done"]
    /\ response' = [response EXCEPT ![r] = answer]

\* The head of the while loop with the locals as given: the next fetch, or the
\* return of the accumulator to the handler.
LoopHead(r, request, token, acc, hn, ac) ==
    /\ allServices' = [allServices EXCEPT ![r] = acc]
    /\ hasNextPage' = [hasNextPage EXCEPT ![r] = hn]
    /\ afterCursor' = [afterCursor EXCEPT ![r] = ac]
    /\ IF WhileCond(hn)
       THEN /\ call' = [call EXCEPT ![r] =
                          [active |-> TRUE, after |-> ac,
                           authorization |-> <<BearerPrefix>> \o token]]
            /\ pc' = [pc EXCEPT ![r] = "fetch"]
            /\ UNCHANGED response
       ELSE /\ Finish(r, Returned(request, acc))
            /\ UNCHANGED call

\* An inbound request, from the handler's first line to its first await.
Request(r, endpoint, header, staticUrl) ==
    /\ pc[r] = "idle"
    /\ req' = [req EXCEPT ![r] =
                 [endpoint |-> endpoint, header |-> header, staticUrl |-> staticUrl]]
    /\ UNCHANGED resp
    /\ LET token == ExtractToken(header) IN
       IF TokenMissing(token)
       THEN /\ Finish(r, Unauthorized)
            /\ UNCHANGED <<apiToken, allServices, hasNextPage, afterCursor, call>>
       ELSE IF endpoint = "lookup" /\ StaticUrlMissing(staticUrl)
       THEN /\ Finish(r, BadRequest)
            /\ UNCHANGED <<apiToken, allServices, hasNextPage, afterCursor, call>>
       ELSE /\ apiToken' = [apiToken EXCEPT ![r] = token.text]
            /\ LoopHead(r, req'[r], token.text, <<>>, TRUE, "null")

\* The upstream answers the call in flight.
Upstream(r, a) ==
    /\ pc[r] = "fetch"
    /\ call[r].active
    /\ call' = [call EXCEPT ![r] = NoCall]
    /\ resp' = [resp EXCEPT ![r] = a]
    /\ pc' = [pc EXCEPT ![r] = "body"]
    /\ UNCHANGED <<req, apiToken, allServices, hasNextPage, afterCursor, response>>

\* Variant: the failure is swallowed and what was accumulated is returned.
OnThrowPartial(r, message) ==
    /\ Finish(r, Returned(req[r], allServices[r]))
    /\ UNCHANGED <<allServices, hasNextPage, afterCursor, call>>

\* The throw leaves the traversal (lines 181-184) and the handler's catch answers.
OnThrow(r, message) ==
    /\ Finish(r, Caught(message))
    /\ UNCHANGED <<allServices, hasNextPage, afterCursor, call>>

\* The rest of the iteration, up to the next await or the HTTP response.
Page(r) ==
    /\ pc[r] = "body"
    /\ resp' = [resp EXCEPT ![r] = NoAnswer]
    /\ UNCHANGED <<req, apiToken>>
    /\ LET o == PageStep(allServices[r], resp[r]) IN
       CASE o.kind = "throw" -> OnThrow(r, o.message)
         [] o.kind = "break" ->
              /\ hasNextPage' = [hasNextPage EXCEPT ![r] = FALSE]
              /\ Finish(r, Returned(req[r], allServices[r]))
              /\ UNCHANGED <<allServices, afterCursor, call>>
         [] o.kind = "next" ->
              LoopHead(r, req[r], apiToken[r], o.all, o.hasNextPage, o.afterCursor)

\* ---------------------------------------------------------------- history

\* The observer: it records the calls issued and the answers received, and
\* stops exploring a request past MaxCalls calls.
Observed ==
    /\ sent' = [r \in Reqs |->
                  IF call'[r].active /\ ~call[r].active
                  THEN Append(sent[r], call'[r].after) ELSE sent[r]]
    /\ log' = [r \in Reqs |->
                 IF pc[r] = "fetch" /\ pc'[r] = "body"
                 THEN Append(log[r], resp'[r]) ELSE log[r]]
    /\ \A r \in Reqs : Len(sent'[r]) <= MaxCalls

Unobserved == UNCHANGED hist

\* The route's parameters: the list route has none.
ParamsOf(endpoint) == IF endpoint = "list" THEN {""} ELSE StaticUrls

Arrive(r) ==
    \E endpoint \in Endpoints, header \in Headers :
        \E staticUrl \in ParamsOf(endpoint) :
            Request(r, endpoint, header, staticUrl) /\ Observed

Answered(r) == \E a \in Answers : Upstream(r, a) /\ Observed

Resume(r) == Page(r) /\ Observed

Next == \E r \in Reqs : Arrive(r) \/ Answered(r) \/ Resume(r)

Spec == Init /\ [][Next]_vars

\* The same program without the observer, so that a traversal is not cut at
\* MaxCalls; the upstream offers only answers whose records fit MaxRecords.
Fits(r, a) == Len(PageStep(allServices[r], a).all) <= MaxRecords

ArriveU(r) ==
    \E endpoint \in Endpoints, header \in Headers :
        \E staticUrl \in ParamsOf(endpoint) :
            Request(r, endpoint, header, staticUrl) /\ Unobserved

AnsweredU(r) == \E a \in Answers : Fits(r, a) /\ Upstream(r, a) /\ Unobserved

ResumeU(r) == Page(r) /\ Unobserved

NextU == \E r \in Reqs : ArriveU(r) \/ AnsweredU(r) \/ ResumeU(r)

\* Every upstream call returns, and the event loop resumes a handler whose
\* await has settled.
Fairness == \A r \in Reqs : WF_vars(AnsweredU(r)) /\ WF_vars(ResumeU(r))

LiveSpec == Init /\ [][NextU]_vars /\ Fairness

\* ================================================================= claims

Done(r) == pc[r] = "done"

\* What the upstream answered, read off the answers themselves.
TransportFailed(a) == a.status < 200 \/ a.status > 299
AppErrored(a) == ~TransportFailed(a) /\ a.errors.present
Failing(a) == TransportFailed(a) \/ a.errors.present
ErrorFree(r) == \A k \in 1..Len(log[r]) : ~Failing(log[r][k])
LastAnswer(r) == log[r][Len(log[r])]

\* The header carries no token: it is absent, empty, or nothing but "Bearer ".
NoToken(h) == ~h.present \/ h.text = <<>> \/ h.text = <<BearerPrefix>>

\* C1: a request without a token is answered 401 "Unauthorized: API token is
\* required", a lookup with a token and an empty staticUrl is answered 400, and
\* in both cases no upstream call is ever issued for the request.
C1_ClientErrorMakesNoCall ==
    \A r \in Reqs :
        pc[r] # "idle" =>
            /\ NoToken(req[r].header) =>
                   /\ Done(r)
                   /\ response[r].code = 401
                   /\ response[r].kind = "error"
                   /\ response[r].error = "Unauthorized: API token is required"
                   /\ sent[r] = <<>> /\ log[r] = <<>> /\ ~call[r].active
            /\ (~NoToken(req[r].header)
                  /\ req[r].endpoint = "lookup" /\ req[r].staticUrl = "") =>
                   /\ Done(r)
                   /\ response[r].code = 400
                   /\ response[r].kind = "error"
                   /\ sent[r] = <<>> /\ log[r] = <<>> /\ ~call[r].active

C1_Witness ==
    \E r, q \in Reqs :
        /\ Done(r) /\ req[r].header = Header(<<BearerPrefix>>) /\ response[r].code = 401
        /\ Done(q) /\ req[q].endpoint = "lookup" /\ req[q].staticUrl = ""
        /\ response[q].code = 400

\* C2: a request one of whose page fetches returned a non-success HTTP status
\* is answered 502 "Failed to fetch from Railway API", whatever the status and
\* the body text were and whichever page it was.
C2_TransportFailureIs502 ==
    \A r \in Reqs :
        (Done(r) /\ \E k \in 1..Len(log[r]) : TransportFailed(log[r][k])) =>
            /\ response[r].code = 502
            /\ response[r].kind = "error"
            /\ response[r].error = "Failed to fetch from Railway API"

C2_Witness ==
    \E r \in Reqs :
        /\ Done(r) /\ Len(log[r]) >= 2
        /\ LastAnswer(r).status = 404 /\ LastAnswer(r).text = <<>>
        /\ response[r].code = 502

\* C3: a request one of whose page fetches returned a success status with an
\* `errors` payload is answered 500 "Internal Server Error" and never 502,
\* whatever the payload says.
C3_AppErrorIs500 ==
    \A r \in Reqs :
        (Done(r) /\ \E k \in 1..Len(log[r]) : AppErrored(log[r][k])) =>
            /\ response[r].code = 500
            /\ response[r].error = "Internal Server Error"

Stops(a) == ~a.data.present \/ a.data.edges = <<>> \/ a.data.hasNextPage # "true"

\* C5: an error-free traversal that has returned made exactly as many calls as
\* the index of the first page that stops it (that page is its last, and no
\* earlier page stops), and a call is in flight only after pages none of which
\* stops.
C5_CallsUpToFirstStop ==
    \A r \in Reqs :
        ErrorFree(r) =>
            /\ (Done(r) /\ log[r] # <<>>) =>
                   /\ Len(sent[r]) = Len(log[r])
                   /\ Stops(LastAnswer(r))
                   /\ \A k \in 1..(Len(log[r]) - 1) : ~Stops(log[r][k])
            /\ call[r].active =>
                   /\ Len(sent[r]) = Len(log[r]) + 1
                   /\ \A k \in 1..Len(log[r]) : ~Stops(log[r][k])

C5_Witness ==
    \E r \in Reqs :
        /\ Done(r) /\ ErrorFree(r) /\ Len(log[r]) = 2
        /\ log[r][2].data.present /\ log[r][2].data.edges = <<>>
        /\ log[r][2].data.hasNextPage = "true"
        /\ response[r].code = 200

\* The reference flattening, written from the pages: for every page in fetch
\* order, every project in page order, the services that have a first instance
\* with a latest deployment, in project order.
HasFirstDeployment(s) ==
    /\ s.serviceInstances.present
    /\ s.serviceInstances.edges # <<>>
    /\ s.serviceInstances.edges[1].latestDeployment.present
RefRecord(p, s) ==
    LET d == s.serviceInstances.edges[1].latestDeployment IN
    [projectId |-> p.id, projectName |-> p.name, serviceId |-> s.id,
     serviceName |-> s.name, deploymentId |-> d.id, status |-> d.status,
     staticUrl |-> d.staticUrl, deploymentStopped |-> d.deploymentStopped]
ServicesOf(p) == IF p.services.present THEN p.services.edges ELSE <<>>
RefProject(p) ==
    LET kept == SelectSeq(ServicesOf(p), HasFirstDeployment) IN
    [k \in 1..Len(kept) |-> RefRecord(p, kept[k])]
RECURSIVE Concat(_)
Concat(ss) == IF ss = <<>> THEN <<>> ELSE Head(ss) \o Concat(Tail(ss))
ProjectsOf(a) == IF a.data.present THEN a.data.edges ELSE <<>>
RefPage(a) == Concat([j \in 1..Len(ProjectsOf(a)) |-> RefProject(ProjectsOf(a)[j])])
RefFlatten(pages) == Concat([i \in 1..Len(pages) |-> RefPage(pages[i])])

\* The service entries of the pages, as (page, project, service) positions.
ServiceEntries(pages) ==
    UNION { UNION { { <<i, j, k>> :
                        k \in 1..Len(ServicesOf(ProjectsOf(pages[i])[j])) } :
                    j \in 1..Len(ProjectsOf(pages[i])) } :
            i \in 1..Len(pages) }
EntryPair(pages, e) ==
    LET p == ProjectsOf(pages[e[1]])[e[2]] IN <<p.id, ServicesOf(p)[e[3]].id>>
RecordPair(rec) == <<rec.projectId, rec.serviceId>>

\* The traversal of r returned its list to the handler.
TraversalReturned(r) == Done(r) /\ log[r] # <<>> /\ ErrorFree(r)

\* C6 (as claimed): every traversal that has begun eventually finishes, for
\* every sequence of upstream answers.
C6_AlwaysTerminates == \A r \in Reqs : (pc[r] = "fetch") ~> Done(r)

\* The answer is an error-free, non-empty page that announces a next page.
Continues(a) ==
    /\ ~Failing(a) /\ a.data.present /\ a.data.edges # <<>>
    /\ a.data.hasNextPage = "true"

\* C6 (amended): a traversal that has begun eventually finishes unless the
\* upstream answers it again and again with error-free, non-empty pages whose
\* hasNextPage is true.
C6_TerminatesUnlessFedForever ==
    \A r \in Reqs :
        \/ (pc[r] = "fetch") ~> Done(r)
        \/ []<>(pc[r] = "body" /\ Continues(resp[r]))

C6_Witness ==
    \E r \in Reqs :
        /\ pc[r] = "body" /\ Continues(resp[r])
        /\ Len(allServices[r]) = MaxRecords

\* C7 (as claimed): the list a successful traversal returns holds at most one
\* record for each (projectId, serviceId) pair, whatever pages it was given.
C7_OneRecordPerPair ==
    \A r \in Reqs :
        (TraversalReturned(r) /\ response[r].kind = "list") =>
            \A i, j \in 1..Len(response[r].records) :
                RecordPair(response[r].records[i]) = RecordPair(response[r].records[j])
                    => i = j

\* C7 (amended): the list a successful traversal returns holds, for each
\* (projectId, serviceId) pair, at most as many records as the fetched pages
\* hold service entries with that pair; so at most one when the pages repeat
\* no pair.
C7_OneRecordPerServiceEntry ==
    \A r \in Reqs :
        (TraversalReturned(r) /\ response[r].kind = "list") =>
            LET recs == response[r].records IN
            \A i \in 1..Len(recs) :
                Cardinality({ j \in 1..Len(recs) : RecordPair(recs[j]) = RecordPair(recs[i]) })
                  <= Cardinality({ e \in ServiceEntries(log[r]) :
                                     EntryPair(log[r], e) = RecordPair(recs[i]) })

C7_Witness ==
    \E r \in Reqs :
        /\ TraversalReturned(r) /\ response[r].kind = "list"
        /\ Len(log[r]) = 2
        /\ log[r][1].data.edges = EdgesA /\ log[r][2].data.edges = EdgesC
        /\ Len(response[r].records) = 3

\* C8: the list a successful traversal returns is the reference flattening of
\* the pages it fetched, so it holds no more records than the pages hold
\* service entries, and the list endpoint answers 200 with that list (the
\* empty array when the first page has no project).
C8_ResultIsFlattening ==
    \A r \in Reqs :
        TraversalReturned(r) =>
            /\ allServices[r] = RefFlatten(log[r])
            /\ Len(allServices[r]) <= Cardinality(ServiceEntries(log[r]))
            /\ req[r].endpoint = "list" =>
                   /\ response[r].code = 200
                   /\ response[r].kind = "list"
                   /\ response[r].records = RefFlatten(log[r])

C8_Witness ==
    \E r, q \in Reqs :
        /\ TraversalReturned(r) /\ req[r].endpoint = "list"
        /\ Len(log[r]) = 2 /\ log[r][2].data.edges = EdgesC
        /\ Len(response[r].records) = 3
        /\ response[r].records[3].serviceId = "s5"
        /\ TraversalReturned(q) /\ req[q].endpoint = "list"
        /\ Len(log[q]) = 1 /\ ProjectsOf(log[q][1]) = <<>>
        /\ response[q].code = 200 /\ response[q].records = <<>>

\* C9: a lookup whose traversal succeeded is answered 404 exactly when no
\* traversed record has the staticUrl asked for; otherwise it is answered 200
\* with the serviceName and status of the earliest such record, whatever the
\* status is.
C9_LookupAnswer ==
    \A r \in Reqs :
        (TraversalReturned(r) /\ req[r].endpoint = "lookup") =>
            LET recs == RefFlatten(log[r])
                hits == { i \in 1..Len(recs) : recs[i].staticUrl = req[r].staticUrl }
            IN  /\ (hits = {}) <=> (response[r].code = 404)
                /\ hits # {} =>
                     LET first == CHOOSE i \in hits : \A j \in hits : i <= j IN
                     /\ response[r].code = 200
                     /\ response[r].kind = "service"
                     /\ response[r].serviceName = recs[first].serviceName
                     /\ response[r].status = recs[first].status

C9_Witness ==
    \E r \in Reqs :
        /\ TraversalReturned(r) /\ req[r].endpoint = "lookup"
        /\ Cardinality({ i \in 1..Len(allServices[r]) :
                           allServices[r][i].staticUrl = req[r].staticUrl }) >= 2
        /\ allServices[r][2].status = "SUCCESS"
        /\ response[r].code = 200 /\ response[r].status = "FAILED"

\* The chain of one request's calls, read off the history.
ChainOf(r) ==
    /\ Len(log[r]) <= Len(sent[r]) /\ Len(sent[r]) <= Len(log[r]) + 1
    /\ call[r].active <=> (Len(sent[r]) = Len(log[r]) + 1)
    /\ sent[r] # <<>> => sent[r][1] = "null"
    /\ \A k \in 1..(Len(sent[r]) - 1) :
           sent[r][k + 1] =
               IF log[r][k].data.present THEN log[r][k].data.endCursor ELSE "null"
    /\ call[r].active =>
           /\ call[r].after = sent[r][Len(sent[r])]
           /\ allServices[r] = RefFlatten(log[r])

\* A step changes the cursor or the accumulator of r only when r reads its own
\* answer.
OwnStep(r) ==
    (allServices'[r] # allServices[r] \/ afterCursor'[r] # afterCursor[r]) =>
        /\ pc[r] = "body"
        /\ \A q \in Reqs \ {r} :
               /\ allServices'[q] = allServices[q]
               /\ afterCursor'[q] = afterCursor[q]

\* C10: a request has at most one call outstanding; its first call carries
\* after = null and each later call the endCursor of the page before it (null
\* when absent), issued once that page's records are accumulated; and the
\* cursor and accumulator of a request change only in that request's own steps.
C10_StrictChain ==
    /\ [](\A r \in Reqs : ChainOf(r))
    /\ [][\A r \in Reqs : OwnStep(r)]_vars

C10_Witness ==
    \E r, q \in Reqs :
        /\ call[r].active /\ Len(sent[r]) = 3
        /\ sent[r][2] = "c1" /\ sent[r][3] = "null"
        /\ call[q].active /\ call[q].after = "c1" /\ Len(allServices[q]) = 1
        /\ Len(allServices[r]) = 1

====
